---- MODULE Spec2Model ----
(***************************************************************************)
(* Model of the verification endpoint of wid-captcha                       *)
(* (src/app/api/verify-captcha/route.ts): the three provider adapters      *)
(* (verifyWorldID, verifyRecaptcha, verifyHCaptcha) and the POST handler   *)
(* that dispatches a request to a primary and a fallback adapter.          *)
(*                                                                         *)
(* JavaScript values are tagged records, so that undefined, null, strings, *)
(* booleans, arrays and objects stay distinct and truthiness is computed   *)
(* as the language computes it.                                            *)
(***************************************************************************)
EXTENDS Integers, Sequences, FiniteSets, TLC

VARIABLES
    WLD_APP_ID,            \* process.env.NEXT_PUBLIC_WLD_APP_ID
    WLD_ACTION_ID,         \* process.env.NEXT_PUBLIC_WLD_ACTION_ID
    CAPTCHA_PROVIDER,      \* process.env.CAPTCHA_PROVIDER || 'recaptcha'
    RECAPTCHA_SECRET_KEY,  \* process.env.RECAPTCHA_SECRET_KEY
    HCAPTCHA_SECRET_KEY,   \* process.env.HCAPTCHA_SECRET_KEY
    PRIMARY_VERIFIER,      \* process.env.PRIMARY_VERIFIER || 'worldid'
    pc,                    \* position of the POST handler
    request,               \* the request body as received
    runs,                  \* adapter invocations of the current request, in order
    response,              \* the NextResponse of the current request
    served,                \* requests answered by this process
    captchaProvider,       \* client: process.env.NEXT_PUBLIC_CAPTCHA_PROVIDER || 'recaptcha'
    siteKey,               \* client: the site key of the configured provider
    isVerified,            \* WidCaptchaProvider state
    isVerifying,
    verificationMethod,
    error,
    isCaptchaScriptLoaded,
    scriptTag,             \* the provider's script element in document.head
    effectRuns,            \* runs of the script loading effect
    inflight,              \* calls of callVerificationApi awaiting their response
    attempts,              \* calls of callVerificationApi so far
    captchaWidgetId,       \* WidCaptcha state: the handle of the rendered widget
    localError,
    effectDue,             \* the render effect's dependencies changed
    retryTimeout,          \* the render effect's retry timer is pending
    widgetsRendered,       \* calls of the provider's render API
    widgetResets,          \* handles passed to the provider's reset API
    rendersInPeriod,       \* outcomes of the render API calls since the handle was last unset
    lastEvent              \* the handler that ran last, and its argument

server == <<WLD_APP_ID, WLD_ACTION_ID, CAPTCHA_PROVIDER, RECAPTCHA_SECRET_KEY,
            HCAPTCHA_SECRET_KEY, PRIMARY_VERIFIER, pc, request, runs, response, served>>

clientConfig == <<captchaProvider, siteKey>>
provider == <<isVerified, isVerifying, verificationMethod, error, isCaptchaScriptLoaded>>
document == <<scriptTag, effectRuns>>
api == <<inflight, attempts>>
widget == <<captchaWidgetId, localError, effectDue, retryTimeout, widgetsRendered, widgetResets,
            rendersInPeriod>>
client == <<clientConfig, provider, document, api, widget, lastEvent>>

vars == <<server, client>>

config == <<WLD_APP_ID, WLD_ACTION_ID, CAPTCHA_PROVIDER, RECAPTCHA_SECRET_KEY,
            HCAPTCHA_SECRET_KEY, PRIMARY_VERIFIER>>

\* Requests one process answers in a behaviour of the model.
MaxRequests == 2

\* Calls of verifyProof, runs of the script loading effect and widgets
\* rendered in a behaviour of the model.
MaxAttempts == 2
MaxEffectRuns == 2
MaxWidgets == 2

-----------------------------------------------------------------------------
(* JavaScript values *)

Undefined == [t |-> "undefined"]
Null == [t |-> "null"]
Str(s) == [t |-> "string", s |-> s]
Bool(b) == [t |-> "boolean", b |-> b]
Num(n) == [t |-> "number", n |-> n]
Arr(a) == [t |-> "array", a |-> a]
Obj(o) == [t |-> "object", o |-> o]

\* ToBoolean: undefined, null, '' and false are falsy; objects and arrays are truthy.
Truthy(v) ==
    /\ v.t \notin {"undefined", "null"}
    /\ v # Str("")
    /\ v # Bool(FALSE)

\* a || b
OrElse(a, b) == IF Truthy(a) THEN a ELSE b

\* a ?? b
Nullish(a, b) == IF a.t \in {"undefined", "null"} THEN b ELSE a

\* v.k for a value whose property read does not throw
Get(v, k) == IF v.t = "object" /\ k \in DOMAIN v.o THEN v.o[k] ELSE Undefined

\* v?.k
OptGet(v, k) == IF v.t \in {"undefined", "null"} THEN Undefined ELSE Get(v, k)

\* Array.prototype.join
RECURSIVE Join(_, _)
Join(a, sep) ==
    IF Len(a) = 0 THEN ""
    ELSE IF Len(a) = 1 THEN a[1]
    ELSE a[1] \o sep \o Join(Tail(a), sep)

\* { ...o, [k]: v }
With(o, k, v) == [x \in DOMAIN o \cup {k} |-> IF x = k THEN v ELSE o[x]]

-----------------------------------------------------------------------------
(* Outcomes of an outbound fetch: the call rejects, or it resolves with a   *)
(* response whose body parses as JSON or does not.                          *)

NotJson == [t |-> "notjson"]
NoOutcome == [kind |-> "none"]
Throws(m) == [kind |-> "throw", message |-> m]
Responds(st, j) == [kind |-> "response", status |-> st, json |-> j]

\* Response.ok
Ok(st) == st >= 200 /\ st <= 299

FetchFailed == "fetch failed"
JsonSyntaxError == "Unexpected token < in JSON at position 0"
NullReadError(k) == "Cannot read properties of null (reading '" \o k \o "')"

\* [success, message, details?] as the adapters return it
Tuple(s, m, d) == [raised |-> FALSE, success |-> s, message |-> m, details |-> d]

\* An exception leaving a block, with its message
Raise(m) == [raised |-> TRUE, success |-> FALSE, message |-> m, details |-> Undefined]

\* Mutant: the catch block is missing and the exception leaves the adapter.
CatchConnectionError_Rethrow(r) == r

\* catch (error) { return [false, `API Connection Error: ${error.message}`] }
CatchConnectionError(r) ==
    IF r.raised THEN Tuple(FALSE, "API Connection Error: " \o r.message, Undefined) ELSE r

\* An adapter invocation: what it was called with, whether it reached fetch,
\* the request it sent, what came back, and the tuple it returned.
Local(res) == [fetched |-> FALSE, sent |-> Undefined, outcome |-> NoOutcome, result |-> res]
Remote(sent, outcome, res) == [fetched |-> TRUE, sent |-> sent, outcome |-> outcome, result |-> res]

-----------------------------------------------------------------------------
(* World ID adapter *)

WORLD_ID_VERIFY_URL ==
    "https://developer.worldcoin.org/api/v2/verify/"
        \o (IF WLD_APP_ID.t = "string" THEN WLD_APP_ID.s ELSE "undefined")

\* Mutant: the client's fields are spread last and override action.
payloadToSend_SpreadLast(idkitResponse) ==
    LET spread == IF idkitResponse.t = "object" THEN idkitResponse.o ELSE <<>>
        own == With(With(<<>>, "action", WLD_ACTION_ID),
                    "signal", Nullish(Get(idkitResponse, "signal"), Str("")))
    IN  Obj([x \in DOMAIN own \cup DOMAIN spread |->
                IF x \in DOMAIN spread THEN spread[x] ELSE own[x]])

\* { ...idkitResponse, action: WLD_ACTION_ID, signal: idkitResponse.signal ?? '' }
payloadToSend(idkitResponse) ==
    LET spread == IF idkitResponse.t = "object" THEN idkitResponse.o ELSE <<>>
    IN  Obj(With(With(spread, "action", WLD_ACTION_ID),
                 "signal", Nullish(Get(idkitResponse, "signal"), Str(""))))

\* Mutant: only status 200 counts as accepted, instead of verifyRes.ok.
worldIdTry_Only200(outcome) ==
    IF outcome.kind = "throw"
    THEN Raise(outcome.message)
    ELSE IF outcome.json = NotJson
    THEN Raise(JsonSyntaxError)
    ELSE IF outcome.status = 200
    THEN Tuple(TRUE, "World ID verification successful.", Undefined)
    ELSE LET detail == OrElse(OptGet(outcome.json, "detail"),
                              Str("Verification failed with status " \o ToString(outcome.status)))
         IN  Tuple(FALSE, "World ID Verification Failed: " \o detail.s, Undefined)

\* The try block of verifyWorldID: fetch, verifyRes.json(), then verifyRes.ok.
worldIdTry(outcome) ==
    IF outcome.kind = "throw"
    THEN Raise(outcome.message)
    ELSE IF outcome.json = NotJson
    THEN Raise(JsonSyntaxError)
    ELSE IF Ok(outcome.status)
    THEN Tuple(TRUE, "World ID verification successful.", Undefined)
    ELSE LET detail == OrElse(OptGet(outcome.json, "detail"),
                              Str("Verification failed with status " \o ToString(outcome.status)))
         IN  Tuple(FALSE, "World ID Verification Failed: " \o detail.s, Undefined)

verifyWorldID(idkitResponse, outcome) ==
    IF ~Truthy(idkitResponse)
    THEN Local(Tuple(FALSE, "World ID proof (idkit_response) not provided in request body.", Undefined))
    ELSE IF ~Truthy(WLD_APP_ID) \/ ~Truthy(WLD_ACTION_ID)
    THEN Local(Tuple(FALSE, "World ID environment variables (NEXT_PUBLIC_WLD_APP_ID, NEXT_PUBLIC_WLD_ACTION_ID) not configured on the server.", Undefined))
    ELSE Remote([url |-> WORLD_ID_VERIFY_URL, body |-> payloadToSend(idkitResponse)],
                outcome, CatchConnectionError(worldIdTry(outcome)))

-----------------------------------------------------------------------------
(* CAPTCHA adapters *)

RECAPTCHA_VERIFY_URL == "https://www.google.com/recaptcha/api/siteverify"
HCAPTCHA_VERIFY_URL == "https://api.hcaptcha.com/siteverify"

\* new URLSearchParams({ secret, response: token })
params(secret, token) == Obj([secret |-> secret, response |-> token])

\* result['error-codes'] || ['unknown'], joined with ', '
errorCodes(result) ==
    Join(OrElse(Get(result, "error-codes"), Arr(<<"unknown">>)).a, ", ")

\* The try block of verifyRecaptcha: success is tested for truthiness.
recaptchaTry(outcome) ==
    IF outcome.kind = "throw"
    THEN Raise(outcome.message)
    ELSE IF outcome.json = NotJson
    THEN Raise(JsonSyntaxError)
    ELSE IF outcome.json = Null
    THEN Raise(NullReadError("success"))
    ELSE IF Truthy(Get(outcome.json, "success"))
    THEN Tuple(TRUE, "reCAPTCHA verification successful.", outcome.json)
    ELSE Tuple(FALSE, "reCAPTCHA Verification Failed: " \o errorCodes(outcome.json), outcome.json)

\* Mutant: the secret key is not checked before the request is sent.
verifyRecaptcha_NoSecretCheck(token, outcome) ==
    IF ~Truthy(token)
    THEN Local(Tuple(FALSE, "reCAPTCHA token not provided in request body.", Undefined))
    ELSE Remote([url |-> RECAPTCHA_VERIFY_URL, body |-> params(RECAPTCHA_SECRET_KEY, token)],
                outcome, CatchConnectionError(recaptchaTry(outcome)))

verifyRecaptcha(token, outcome) ==
    IF ~Truthy(token)
    THEN Local(Tuple(FALSE, "reCAPTCHA token not provided in request body.", Undefined))
    ELSE IF ~Truthy(RECAPTCHA_SECRET_KEY)
    THEN Local(Tuple(FALSE, "reCAPTCHA Secret Key (RECAPTCHA_SECRET_KEY) not configured on the server.", Undefined))
    ELSE Remote([url |-> RECAPTCHA_VERIFY_URL, body |-> params(RECAPTCHA_SECRET_KEY, token)],
                outcome, CatchConnectionError(recaptchaTry(outcome)))

\* The try block of verifyHCaptcha: success is tested with === true.
hcaptchaTry(outcome) ==
    IF outcome.kind = "throw"
    THEN Raise(outcome.message)
    ELSE IF outcome.json = NotJson
    THEN Raise(JsonSyntaxError)
    ELSE IF outcome.json = Null
    THEN Raise(NullReadError("success"))
    ELSE IF Get(outcome.json, "success") = Bool(TRUE)
    THEN Tuple(TRUE, "hCaptcha verification successful.", outcome.json)
    ELSE Tuple(FALSE, "hCaptcha Verification Failed: " \o errorCodes(outcome.json), outcome.json)

verifyHCaptcha(token, outcome) ==
    IF ~Truthy(token)
    THEN Local(Tuple(FALSE, "hCaptcha token not provided in request body.", Undefined))
    ELSE IF ~Truthy(HCAPTCHA_SECRET_KEY)
    THEN Local(Tuple(FALSE, "hCaptcha Secret Key (HCAPTCHA_SECRET_KEY) not configured on the server.", Undefined))
    ELSE Remote([url |-> HCAPTCHA_VERIFY_URL, body |-> params(HCAPTCHA_SECRET_KEY, token)],
                outcome, CatchConnectionError(hcaptchaTry(outcome)))

-----------------------------------------------------------------------------
(* Inputs: configurations, request bodies and remote behaviours *)

AppIds == {Undefined, Str("app_staging_1")}
ActionIds == {Undefined, Str("login")}
SecretKeys == {Undefined, Str("sk")}
\* process.env.CAPTCHA_PROVIDER and process.env.PRIMARY_VERIFIER, unset or set
\* to a supported or an unsupported word
ProviderEnv == {Undefined, Str("recaptcha"), Str("hcaptcha"), Str("turnstile")}
PriorityEnv == {Undefined, Str("worldid"), Str("captcha"), Str("identity")}

ProofFields == {"merkle_root", "nullifier_hash", "proof", "credential_type"}

Without(o, k) == [x \in DOMAIN o \ {k} |-> o[x]]

ValidProof ==
    [merkle_root |-> Str("0xroot"), nullifier_hash |-> Str("0xnull"),
     proof |-> Str("0xproof"), credential_type |-> Str("orb")]

\* idkit_response objects: complete, one field empty, one field missing,
\* with a signal, with a null signal, and with a client-chosen action
Proofs ==
    {ValidProof}
        \cup {With(ValidProof, f, Str("")) : f \in ProofFields}
        \cup {Without(ValidProof, f) : f \in ProofFields}
        \cup {With(ValidProof, "signal", Str("sig")), With(ValidProof, "signal", Null),
              With(ValidProof, "action", Str("other-action"))}

IdkitValues == {Undefined, Null} \cup {Obj(p) : p \in Proofs}
TokenValues == {Undefined, Str(""), Str("valid-token")}

\* What request.json() meets: a body that does not parse, the JSON null,
\* a JSON string, or an object with any of the two payload keys.
Unparseable == [t |-> "unparseable"]
Bodies ==
    {Unparseable, Null, Str("hello")}
        \cup {Obj([idkit_response |-> i, captcha_token |-> c]) : i \in IdkitValues, c \in TokenValues}

WorldIdOutcomes ==
    {Throws(FetchFailed)}
        \cup {Responds(st, j) : st \in {200, 400},
                                j \in {NotJson, Obj([detail |-> Str("invalid proof")]),
                                       Obj([code |-> Str("invalid_proof")])}}
        \cup {Responds(500, NotJson), Responds(400, Obj([detail |-> Str("")])), Responds(400, Null),
              Responds(201, Obj([code |-> Str("created")])), Responds(204, NotJson)}

CaptchaOutcomes ==
    {Throws(FetchFailed)}
        \cup {Responds(200, j) :
                j \in {NotJson, Null,
                       Obj([success |-> Bool(TRUE)]),
                       Obj([success |-> Str("yes")]),
                       Obj([success |-> Bool(FALSE)]),
                       Obj(With([success |-> Bool(FALSE)], "error-codes", Arr(<<"invalid-input-response">>))),
                       Obj(With(<<>>, "error-codes", Arr(<<"missing-input-secret", "invalid-input-response">>)))}}

-----------------------------------------------------------------------------
(* POST /api/verify-captcha *)

NoResponse == [status |-> 0]

\* NextResponse.json(body, { status }); keys left out of body are undefined
Json(status, success, message, errorText, method, details) ==
    [status |-> status,
     body |-> [success |-> success, message |-> message, error |-> errorText,
               method |-> method, details |-> details]]

idkitResponse == Get(request, "idkit_response")
captchaToken == Get(request, "captcha_token")

captchaVerifier == IF CAPTCHA_PROVIDER = "hcaptcha" THEN "verifyHCaptcha" ELSE "verifyRecaptcha"
captchaMethodName == IF CAPTCHA_PROVIDER = "hcaptcha" THEN "hCaptcha" ELSE "reCAPTCHA"
worldIdVerifier == "verifyWorldID"
worldIdMethodName == "World ID"

primaryVerifier == IF PRIMARY_VERIFIER = "captcha" THEN captchaVerifier ELSE worldIdVerifier
primaryPayload == IF PRIMARY_VERIFIER = "captcha" THEN captchaToken ELSE idkitResponse
primaryMethodName == IF PRIMARY_VERIFIER = "captcha" THEN captchaMethodName ELSE worldIdMethodName
\* Mutant: the fallback slot is given the primary's verifier.
fallbackVerifier_SameAsPrimary == primaryVerifier

fallbackVerifier == IF PRIMARY_VERIFIER = "captcha" THEN worldIdVerifier ELSE captchaVerifier
fallbackPayload == IF PRIMARY_VERIFIER = "captcha" THEN idkitResponse ELSE captchaToken
fallbackMethodName == IF PRIMARY_VERIFIER = "captcha" THEN worldIdMethodName ELSE captchaMethodName

\* Mutant: the two method tags are swapped.
responseMethod_Swapped(methodName) ==
    IF methodName = worldIdMethodName THEN CAPTCHA_PROVIDER ELSE "world_id"

responseMethod(methodName) ==
    IF methodName = worldIdMethodName THEN "world_id" ELSE CAPTCHA_PROVIDER

\* await verifier(payload), with the remote behaviour the call meets
Invoke(verifier, payload, outcome) ==
    LET r == CASE verifier = "verifyWorldID" -> verifyWorldID(payload, outcome)
               [] verifier = "verifyRecaptcha" -> verifyRecaptcha(payload, outcome)
               [] verifier = "verifyHCaptcha" -> verifyHCaptcha(payload, outcome)
    IN  [adapter |-> verifier, payload |-> payload, fetched |-> r.fetched,
         sent |-> r.sent, outcome |-> r.outcome, result |-> r.result]

OutcomesOf(verifier) ==
    IF verifier = "verifyWorldID" THEN WorldIdOutcomes ELSE CaptchaOutcomes

\* The responses of the handler
invalidJsonResponse ==
    Json(400, FALSE, Undefined, Str("Invalid JSON payload"), Undefined, Undefined)

successResponse(methodName, result) ==
    Json(200, TRUE, Str(result.message), Undefined, Str(responseMethod(methodName)), result.details)

\* Mutant: the failure response of the fallback leaves out the adapter's details.
fallbackFailedResponse_NoDetails(result) ==
    Json(400, FALSE, Undefined, Str("Verification Failed: " \o result.message),
         Str(responseMethod(fallbackMethodName)), Undefined)

\* Mutant: the failure response of the fallback is as generic as the primary's.
fallbackFailedResponse_Generic(result) ==
    Json(400, FALSE, Undefined,
         Str("Verification Failed: Fallback method (" \o fallbackMethodName \o ") failed."),
         Str(responseMethod(fallbackMethodName)), result.details)

fallbackFailedResponse(result) ==
    Json(400, FALSE, Undefined, Str("Verification Failed: " \o result.message),
         Str(responseMethod(fallbackMethodName)), result.details)

\* Mutant: the failure response of the primary carries the adapter's message.
primaryFailedResponse_AdapterMessage ==
    Json(400, FALSE, Undefined, Str("Verification Failed: " \o runs[1].result.message),
         Str(responseMethod(primaryMethodName)), Undefined)

primaryFailedResponse ==
    Json(400, FALSE, Undefined,
         Str("Verification Failed: Primary method (" \o primaryMethodName \o ") failed."),
         Str(responseMethod(primaryMethodName)), Undefined)

\* Mutant: a request without payload is answered with success.
noPayloadResponse_Success ==
    Json(200, TRUE, Str("No verification payload required."), Undefined, Str("world_id"), Undefined)

noPayloadResponse ==
    Json(400, FALSE, Undefined,
         Str("No verification payload (idkit_response or captcha_token) provided in the request."),
         Undefined, Undefined)

\* The handler's outer catch
internalErrorResponse(errorMessage) ==
    Json(500, FALSE, Undefined, Str("Internal Server Error: " \o errorMessage), Undefined, Undefined)

\* An event of the page: the handler and what it was called with, the
\* VerificationResult its call resolved with in this step, and the results
\* passed to WidCaptcha's onVerificationComplete prop in this step
Event(op, arg) == [op |-> op, arg |-> arg, returned |-> Undefined, completions |-> <<>>]

\* The useState initial values of WidCaptchaProvider and WidCaptcha, before
\* the first effect has run.
Unmounted ==
    /\ isVerified = FALSE
    /\ isVerifying = FALSE
    /\ verificationMethod = "none"
    /\ error = Null
    /\ isCaptchaScriptLoaded = FALSE
    /\ effectRuns = 0
    /\ inflight = {}
    /\ attempts = 0
    /\ captchaWidgetId = Null
    /\ localError = Null
    /\ effectDue = TRUE
    /\ retryTimeout = FALSE
    /\ widgetsRendered = 0
    /\ widgetResets = {}
    /\ rendersInPeriod = <<>>
    /\ lastEvent = Event("mount", Undefined)

Init ==
    /\ captchaProvider = "recaptcha"
    /\ siteKey = Str("site-key")
    /\ scriptTag = "none"
    /\ Unmounted
    /\ WLD_APP_ID \in AppIds
    /\ WLD_ACTION_ID \in ActionIds
    /\ \E e \in ProviderEnv : CAPTCHA_PROVIDER = OrElse(e, Str("recaptcha")).s
    /\ RECAPTCHA_SECRET_KEY \in SecretKeys
    /\ HCAPTCHA_SECRET_KEY \in SecretKeys
    /\ \E e \in PriorityEnv : PRIMARY_VERIFIER = OrElse(e, Str("worldid")).s
    /\ pc = "idle"
    /\ request = Undefined
    /\ runs = <<>>
    /\ response = NoResponse
    /\ served = 0

\* A request reaches the handler.
Receive ==
    /\ pc \in {"idle", "done"}
    /\ served < MaxRequests
    /\ \E body \in Bodies : request' = body
    /\ runs' = <<>>
    /\ response' = NoResponse
    /\ pc' = "parse"
    /\ UNCHANGED <<config, served, client>>

Respond(r) ==
    /\ response' = r
    /\ pc' = "done"
    /\ served' = served + 1

\* 1. Parse the body and read the two payloads from it; reading a property of
\* null throws into the outer catch.
POST_Parse ==
    /\ pc = "parse"
    /\ IF request = Unparseable
       THEN Respond(invalidJsonResponse)
       ELSE IF request.t \in {"null", "undefined"}
       THEN Respond(internalErrorResponse(NullReadError("idkit_response")))
       ELSE pc' = "primary" /\ UNCHANGED <<response, served>>
    /\ UNCHANGED <<config, request, runs, client>>

\* 3. Attempt the primary verification.
POST_Primary ==
    /\ pc = "primary"
    /\ IF Truthy(primaryPayload)
       THEN \E outcome \in OutcomesOf(primaryVerifier) :
              LET run == Invoke(primaryVerifier, primaryPayload, outcome)
              IN  /\ runs' = Append(runs, run)
                  /\ IF run.result.raised
                     THEN Respond(internalErrorResponse(run.result.message))
                     ELSE IF run.result.success
                     THEN Respond(successResponse(primaryMethodName, run.result))
                     ELSE pc' = "fallback" /\ UNCHANGED <<response, served>>
       ELSE pc' = "fallback" /\ UNCHANGED <<runs, response, served>>
    /\ UNCHANGED <<config, request, client>>

\* 4. Attempt the fallback verification; 5. no method succeeded.
POST_Fallback ==
    /\ pc = "fallback"
    /\ IF Truthy(fallbackPayload)
       THEN \E outcome \in OutcomesOf(fallbackVerifier) :
              LET run == Invoke(fallbackVerifier, fallbackPayload, outcome)
              IN  /\ runs' = Append(runs, run)
                  /\ IF run.result.raised
                     THEN Respond(internalErrorResponse(run.result.message))
                     ELSE IF run.result.success
                     THEN Respond(successResponse(fallbackMethodName, run.result))
                     ELSE Respond(fallbackFailedResponse(run.result))
       ELSE /\ runs' = runs
            /\ IF Truthy(primaryPayload) /\ ~Truthy(fallbackPayload)
               THEN Respond(primaryFailedResponse)
               ELSE Respond(noPayloadResponse)
    /\ UNCHANGED <<config, request, client>>

Next == Receive \/ POST_Parse \/ POST_Primary \/ POST_Fallback

Spec == Init /\ [][Next]_vars

-----------------------------------------------------------------------------
(* Properties of the endpoint *)

Done == pc = "done"
Adapters == {"verifyWorldID", "verifyRecaptcha", "verifyHCaptcha"}
Calls(a) == Cardinality({i \in 1..Len(runs) : runs[i].adapter = a})
WorldIdFirst == PRIMARY_VERIFIER # "captcha"
HasProof == Truthy(idkitResponse)
HasToken == Truthy(captchaToken)
LastRun == runs[Len(runs)]

\* The fetch rejected, or the response body did not parse, or the parsed
\* body could not be read.
AdapterException(run) ==
    /\ run.fetched
    /\ \/ run.outcome.kind = "throw"
       \/ run.outcome.kind = "response" /\ run.outcome.json = NotJson
       \/ run.outcome.kind = "response" /\ run.outcome.json = Null /\ run.adapter # "verifyWorldID"

ExceptionMessage(run) ==
    IF run.outcome.kind = "throw" THEN run.outcome.message
    ELSE IF run.outcome.json = NotJson THEN JsonSyntaxError
    ELSE NullReadError("success")

\* The adapter refused the payload itself: for missing configuration, or
\* because the provider answered and did not accept it.
Rejected(run) == ~run.result.success /\ ~AdapterException(run)

\* C1: when the primary adapter is invoked and reports success, the request
\* is answered at once with status 200, success:true and the primary's method
\* (world_id when World ID is primary, the configured CAPTCHA provider when
\* the CAPTCHA is primary), and the fallback adapter is not invoked.
C1_PrimarySuccessReturnsAtOnce ==
    \A i \in 1..Len(runs) :
        (runs[i].adapter = primaryVerifier /\ runs[i].result.success) =>
            /\ Done
            /\ response.status = 200
            /\ response.body.success
            /\ response.body.method =
                   Str(IF PRIMARY_VERIFIER = "captcha" THEN CAPTCHA_PROVIDER ELSE "world_id")
            /\ Calls(fallbackVerifier) = 0

C1_Witness ==
    /\ Done
    /\ PRIMARY_VERIFIER = "captcha"
    /\ HasProof /\ HasToken
    /\ Len(runs) = 1 /\ runs[1].adapter = "verifyHCaptcha" /\ runs[1].result.success
    /\ response.body.method = Str("hcaptcha")

\* C2: no adapter is invoked twice in one request; and with World ID first, a
\* proof and a token both present and the World ID adapter failing, the
\* CAPTCHA adapter is invoked once, after it, and the response has the CAPTCHA
\* adapter's success flag and the CAPTCHA provider as method.
C2_FallThroughOnce ==
    /\ \A a \in Adapters : Calls(a) <= 1
    /\ (Done /\ WorldIdFirst /\ HasProof /\ HasToken
            /\ Len(runs) >= 1 /\ ~runs[1].result.success) =>
          /\ Len(runs) = 2
          /\ runs[1].adapter = "verifyWorldID"
          /\ runs[2].adapter = captchaVerifier
          /\ response.body.success = runs[2].result.success
          /\ response.body.method = Str(CAPTCHA_PROVIDER)
          /\ response.status = IF runs[2].result.success THEN 200 ELSE 400

C2_Witness ==
    /\ Done /\ WorldIdFirst /\ HasProof /\ HasToken
    /\ Len(runs) = 2
    /\ runs[1].fetched /\ ~runs[1].result.success
    /\ runs[2].fetched /\ runs[2].result.success
    /\ response.status = 200

\* The text a response carries: its message, or its error when it has none.
ResponseText == IF response.body.message # Undefined THEN response.body.message ELSE response.body.error

TokenOnly == Done /\ request.t = "object" /\ WorldIdFirst /\ ~HasProof /\ HasToken

\* C3 as stated: with World ID first and only a token in the request, the
\* World ID adapter is not invoked and the response carries the CAPTCHA
\* adapter's success flag, its message text unchanged and its details.
C3_Verbatim ==
    TokenOnly =>
        /\ Calls("verifyWorldID") = 0
        /\ Len(runs) = 1 /\ runs[1].adapter = captchaVerifier
        /\ response.body.success = runs[1].result.success
        /\ ResponseText = Str(runs[1].result.message)
        /\ response.body.details = runs[1].result.details

\* C3 amended: with World ID first and only a token in the request, the World
\* ID adapter is not invoked and the response carries the CAPTCHA adapter's
\* success flag and details; on success its message is the adapter's message,
\* on failure its error is "Verification Failed: " followed by that message.
C3_VerbatimButPrefixedOnFailure ==
    TokenOnly =>
        /\ Calls("verifyWorldID") = 0
        /\ Len(runs) = 1 /\ runs[1].adapter = captchaVerifier
        /\ response.body.success = runs[1].result.success
        /\ response.body.details = runs[1].result.details
        /\ IF runs[1].result.success
           THEN /\ response.body.message = Str(runs[1].result.message)
                /\ response.body.error = Undefined
           ELSE /\ response.body.error = Str("Verification Failed: " \o runs[1].result.message)
                /\ response.body.message = Undefined

C3_Witness ==
    /\ TokenOnly
    /\ runs[1].fetched /\ ~runs[1].result.success
    /\ runs[1].result.details # Undefined
    /\ response.status = 400

\* C4: a request whose body parses as JSON and has neither an idkit_response
\* nor a captcha_token invokes no adapter and is answered with status 400,
\* success:false and the no-payload message.
C4_NoPayload ==
    (Done /\ request # Unparseable
          /\ Get(request, "idkit_response") = Undefined
          /\ Get(request, "captcha_token") = Undefined) =>
        /\ runs = <<>>
        /\ response = noPayloadResponse

\* A failure the client's payload causes: the body does not parse, it holds
\* no payload, or a provider answered and refused the payload.
ClientFailure ==
    \/ request = Unparseable
    \/ ~HasProof /\ ~HasToken
    \/ Len(runs) >= 1 /\ LastRun.fetched /\ Rejected(LastRun)

\* C5: the status is 200 exactly when the body has success:true, and a
\* failure the client's payload causes has status 400.
C5_StatusCodes ==
    Done =>
        /\ response.status \in {200, 400, 500}
        /\ (response.status = 200) <=> response.body.success
        /\ (~response.body.success /\ ClientFailure) => response.status = 400

\* C6: an exception inside an adapter (the fetch rejects, the response body is
\* not JSON or cannot be read) does not leave the adapter: the adapter returns
\* a failure whose message is "API Connection Error: " and the exception's
\* message, and the request is not answered with status 500.
C6_AdapterExceptionsContained ==
    \A i \in 1..Len(runs) :
        AdapterException(runs[i]) =>
            /\ ~runs[i].result.raised
            /\ ~runs[i].result.success
            /\ runs[i].result.message = "API Connection Error: " \o ExceptionMessage(runs[i])
            /\ Done => response.status # 500

C6_Witness ==
    /\ Done
    /\ Len(runs) = 2
    /\ runs[1].outcome = Throws(FetchFailed)
    /\ runs[2].fetched /\ runs[2].outcome.kind = "response" /\ runs[2].outcome.json = NotJson
    /\ response.status = 400

PrimaryFailedText == Str("Verification Failed: Primary method (" \o primaryMethodName \o ") failed.")

\* C7 as stated: when the last adapter invoked rejected its payload, for
\* missing configuration or by the provider's answer, the 400 response's
\* error carries that adapter's message, be it the primary or the fallback.
C7_AdapterMessageSurfaced ==
    (Done /\ ~response.body.success /\ Len(runs) >= 1 /\ Rejected(LastRun)) =>
        /\ response.status = 400
        /\ response.body.error = Str("Verification Failed: " \o LastRun.result.message)

\* C7 amended: when the last adapter invoked rejected its payload, the
\* response has status 400; its error is "Verification Failed: " followed by
\* the adapter's message when that adapter was the fallback, and the generic
\* "Verification Failed: Primary method (<name>) failed." when it was the
\* primary (no fallback payload being present).
C7_FallbackMessageSurfaced ==
    (Done /\ ~response.body.success /\ Len(runs) >= 1 /\ Rejected(LastRun)) =>
        /\ response.status = 400
        /\ IF LastRun.adapter = fallbackVerifier
           THEN response.body.error = Str("Verification Failed: " \o LastRun.result.message)
           ELSE /\ response.body.error = PrimaryFailedText
                /\ ~Truthy(fallbackPayload)

C7_Witness ==
    /\ Done
    /\ Len(runs) = 2
    /\ Rejected(runs[1]) /\ runs[1].fetched
    /\ Rejected(runs[2]) /\ ~runs[2].fetched
    /\ response.body.error = Str("Verification Failed: " \o runs[2].result.message)

\* C8: with World ID first, a proof present, the World ID adapter failing and
\* no token present, the response is status 400, success:false, method
\* world_id and the generic primary-failed error, and no CAPTCHA adapter is
\* invoked.
C8_PrimaryFailedNoFallback ==
    (Done /\ WorldIdFirst /\ HasProof /\ ~HasToken) =>
        /\ Len(runs) = 1 /\ runs[1].adapter = "verifyWorldID"
        /\ Calls("verifyRecaptcha") = 0 /\ Calls("verifyHCaptcha") = 0
        /\ ~runs[1].result.success =>
              response = Json(400, FALSE, Undefined,
                              Str("Verification Failed: Primary method (World ID) failed."),
                              Str("world_id"), Undefined)

C8_Witness ==
    /\ Done /\ WorldIdFirst /\ HasProof /\ ~HasToken
    /\ Len(runs) = 1
    /\ runs[1].outcome = Responds(400, Obj([detail |-> Str("invalid proof")]))
    /\ runs[1].result.message = "World ID Verification Failed: invalid proof"
    /\ response.status = 400

ProofComplete(p) == \A f \in ProofFields : Truthy(Get(p, f))

\* C9: the World ID adapter sends a request to the provider only when all of
\* merkle_root, nullifier_hash, proof and credential_type are present and
\* non-empty; with one of them missing or empty a configured adapter returns
\* the proof-not-provided failure.
C9_ProofFieldsRequired ==
    \A i \in 1..Len(runs) :
        runs[i].adapter = "verifyWorldID" =>
            /\ runs[i].fetched => ProofComplete(runs[i].payload)
            /\ (~ProofComplete(runs[i].payload) /\ Truthy(WLD_APP_ID) /\ Truthy(WLD_ACTION_ID)) =>
                  runs[i].result.message = "World ID proof (idkit_response) not provided in request body."

StatusMessage(outcome) ==
    "World ID Verification Failed: "
        \o (IF Truthy(OptGet(outcome.json, "detail"))
            THEN OptGet(outcome.json, "detail").s
            ELSE "Verification failed with status " \o ToString(outcome.status))

WorldIdAnswered(run) ==
    run.adapter = "verifyWorldID" /\ run.fetched /\ run.outcome.kind = "response"

\* C10 as stated: the World ID adapter reports success for every 2xx response
\* and, for every other status, a failure whose message is made of the body's
\* detail or, without one, of the status code.
C10_StatusDecides ==
    \A i \in 1..Len(runs) :
        WorldIdAnswered(runs[i]) =>
            IF Ok(runs[i].outcome.status)
            THEN runs[i].result.success
            ELSE ~runs[i].result.success /\ runs[i].result.message = StatusMessage(runs[i].outcome)

\* C10 amended: for a response whose body parses as JSON, the World ID adapter
\* reports success when the status is 2xx and otherwise a failure whose
\* message is "World ID Verification Failed: " followed by the body's detail
\* or, when detail is absent or empty, "Verification failed with status
\* <status>"; a response whose body is not JSON is a failure with the
\* connection-error message, whatever its status.
C10_StatusDecidesForJsonBodies ==
    \A i \in 1..Len(runs) :
        WorldIdAnswered(runs[i]) =>
            IF runs[i].outcome.json = NotJson
            THEN /\ ~runs[i].result.success
                 /\ runs[i].result.message = "API Connection Error: " \o JsonSyntaxError
            ELSE IF Ok(runs[i].outcome.status)
            THEN runs[i].result.success
            ELSE ~runs[i].result.success /\ runs[i].result.message = StatusMessage(runs[i].outcome)

C10_Witness ==
    /\ Done
    /\ Len(runs) = 1
    /\ WorldIdAnswered(runs[1])
    /\ runs[1].outcome = Responds(201, Obj([code |-> Str("created")]))
    /\ runs[1].result.success

\* A CAPTCHA adapter sent its request and the provider answered with a JSON
\* object.
CaptchaAnswered(run) ==
    /\ run.adapter \in {"verifyRecaptcha", "verifyHCaptcha"}
    /\ run.fetched
    /\ run.outcome.kind = "response"
    /\ run.outcome.json.t = "object"

FailurePrefix(adapter) ==
    IF adapter = "verifyRecaptcha"
    THEN "reCAPTCHA Verification Failed: "
    ELSE "hCaptcha Verification Failed: "

\* C11: for both CAPTCHA providers the adapter reports success exactly when
\* the success field of the provider's JSON response strictly equals true;
\* any other value is a failure whose message joins the response's
\* error-codes array with ', ', or says 'unknown' when the array is absent.
C11_SuccessStrictlyTrue ==
    \A i \in 1..Len(runs) :
        CaptchaAnswered(runs[i]) =>
            LET json == runs[i].outcome.json
                codes == Get(json, "error-codes")
            IN  IF Get(json, "success") = Bool(TRUE)
                THEN runs[i].result.success
                ELSE /\ ~runs[i].result.success
                     /\ runs[i].result.message =
                            FailurePrefix(runs[i].adapter)
                                \o (IF codes.t = "array" THEN Join(codes.a, ", ") ELSE "unknown")

\* The adapter's configuration is incomplete or its payload is empty.
Unconfigured(adapter, payload) ==
    CASE adapter = "verifyRecaptcha" -> ~Truthy(RECAPTCHA_SECRET_KEY) \/ ~Truthy(payload)
      [] adapter = "verifyHCaptcha" -> ~Truthy(HCAPTCHA_SECRET_KEY) \/ ~Truthy(payload)
      [] OTHER -> ~Truthy(WLD_APP_ID) \/ ~Truthy(WLD_ACTION_ID)

\* C12: an adapter whose secret key (for World ID: app id or action id) is
\* missing, or whose token is empty, returns a failure and sends no HTTP
\* request: this holds of every invocation the handler made, and of every
\* adapter applied to every payload and every outcome the provider could
\* have given.
C12_NoRequestWhenUnconfigured ==
    /\ \A i \in 1..Len(runs) :
          Unconfigured(runs[i].adapter, runs[i].payload) =>
              /\ ~runs[i].fetched
              /\ runs[i].sent = Undefined
              /\ runs[i].outcome = NoOutcome
              /\ ~runs[i].result.success
    /\ \A a \in Adapters :
          \A payload \in (IF a = "verifyWorldID" THEN IdkitValues \ {Undefined, Null} ELSE TokenValues) :
              \A outcome \in OutcomesOf(a) :
                  Unconfigured(a, payload) =>
                      LET run == Invoke(a, payload, outcome)
                      IN  ~run.fetched /\ ~run.result.success

C12_Witness ==
    /\ Done
    /\ Len(runs) = 2
    /\ runs[1].adapter = "verifyWorldID" /\ ~Truthy(WLD_ACTION_ID) /\ ~runs[1].fetched
    /\ runs[2].adapter = "verifyRecaptcha" /\ ~Truthy(RECAPTCHA_SECRET_KEY) /\ ~runs[2].fetched
    /\ runs[2].payload = Str("valid-token")
    /\ response.status = 400

\* C13: every request the World ID adapter sends has the server's action id
\* as action, whatever the client's proof says, has the client's signal or,
\* when the client gave none, the empty string as signal, and has every other
\* field of the proof as the client sent it.
C13_ServerActionAndSignal ==
    \A i \in 1..Len(runs) :
        (runs[i].adapter = "verifyWorldID" /\ runs[i].fetched) =>
            LET proof == runs[i].payload
                body == runs[i].sent.body
                signal == Get(proof, "signal")
            IN  /\ Get(body, "action") = WLD_ACTION_ID
                /\ Get(body, "signal") = (IF signal \in {Undefined, Null} THEN Str("") ELSE signal)
                /\ DOMAIN body.o = DOMAIN proof.o \cup {"action", "signal"}
                /\ \A k \in DOMAIN proof.o \ {"action", "signal"} : body.o[k] = proof.o[k]

C13_Witness ==
    /\ Len(runs) = 1
    /\ runs[1].adapter = "verifyWorldID" /\ runs[1].fetched
    /\ Get(runs[1].payload, "action") = Str("other-action")
    /\ Get(runs[1].sent.body, "action") = Str("login")
    /\ Get(runs[1].sent.body, "signal") = Str("")

\* error instanceof Error ? error.message : 'An unexpected error occurred.'
GenericInternalError == "An unexpected error occurred."

\* C14: every response with status 500 carries the generic message, and not
\* the text of the exception that caused it.
C14_GenericInternalError ==
    (Done /\ response.status = 500) =>
        /\ ~response.body.success
        /\ response.body.error = Str("Internal Server Error: " \o GenericInternalError)

-----------------------------------------------------------------------------
(* The page: WidCaptchaProvider (wid-captcha-context.tsx) and the WidCaptcha *)
(* component (wid-captcha.tsx). Each handler runs to completion; an async    *)
(* function is one step up to its await and one step from its response on.   *)

SupportedProviders == {"recaptcha", "hcaptcha"}
ClientProviderEnv == {Undefined, Str("turnstile")}
SiteKeys == {Undefined, Str("site-key")}

\* { idkit_response?, captcha_token? } as verifyProof receives it
Payload(idkit, token) == [idkit_response |-> idkit, captcha_token |-> token]
Payloads == {Payload(Undefined, Undefined), Payload(Obj(ValidProof), Str("valid-token"))}

\* What the page gets from POST /api/verify-captcha: the fetch rejects, or a
\* response arrives whose body is one of the route's bodies, or is not the
\* route's (no JSON, flags that contradict the status).
ApiBodies ==
    {NotJson,
     Obj([success |-> Bool(TRUE), message |-> Str("World ID verification successful."),
          method |-> Str("world_id")]),
     Obj([success |-> Bool(TRUE)]),
     Obj([success |-> Bool(FALSE), error |-> Str("Verification Failed: reCAPTCHA Verification Failed: unknown")])}
ApiOutcomes ==
    {Throws(FetchFailed)} \cup {Responds(st, j) : st \in {200, 400}, j \in ApiBodies}

NoPayloadError ==
    "No verification payload (idkit_response or captcha_token) provided to callVerificationApi"
ScriptLoadError == "Failed to load " \o captchaProvider \o " script"

providerState ==
    [isVerified |-> isVerified, isVerifying |-> isVerifying,
     verificationMethod |-> verificationMethod, error |-> error,
     isCaptchaScriptLoaded |-> isCaptchaScriptLoaded]

\* The render effect of WidCaptcha runs again when one of its dependencies
\* has changed.
DepsChanged ==
    \/ isCaptchaScriptLoaded' # isCaptchaScriptLoaded
    \/ captchaWidgetId' # captchaWidgetId

Mounted == effectRuns > 0

\* window.grecaptcha / window.hcaptcha exists once the script has run
ApiReady == captchaProvider \in SupportedProviders /\ scriptTag = "loaded"

\* The script loading effect: loadScript for the configured provider.
loadScript ==
    /\ effectRuns < MaxEffectRuns
    /\ effectRuns' = effectRuns + 1
    /\ IF captchaProvider \notin SupportedProviders
       THEN UNCHANGED <<scriptTag, isCaptchaScriptLoaded>>
       ELSE IF scriptTag # "none"
       THEN isCaptchaScriptLoaded' = TRUE /\ UNCHANGED scriptTag
       ELSE scriptTag' = "loading" /\ UNCHANGED isCaptchaScriptLoaded
    /\ lastEvent' = Event("loadScript", Undefined)
    /\ UNCHANGED <<server, clientConfig, isVerified, isVerifying, verificationMethod, error, api,
                   captchaWidgetId, localError, retryTimeout, widgetsRendered, widgetResets, rendersInPeriod>>
    /\ effectDue' = (effectDue \/ DepsChanged)

\* window.onloadCallback (reCAPTCHA) or script.onload (hCaptcha)
onload ==
    /\ scriptTag = "loading"
    /\ scriptTag' = "loaded"
    /\ isCaptchaScriptLoaded' = TRUE
    /\ lastEvent' = Event("onload", Undefined)
    /\ UNCHANGED <<server, clientConfig, isVerified, isVerifying, verificationMethod, error, effectRuns,
                   api, captchaWidgetId, localError, retryTimeout, widgetsRendered, widgetResets, rendersInPeriod>>
    /\ effectDue' = (effectDue \/ DepsChanged)

\* script.onerror: the failed script element is removed
onerror ==
    /\ scriptTag = "loading"
    /\ scriptTag' = "none"
    /\ error' = Str(ScriptLoadError)
    /\ isCaptchaScriptLoaded' = FALSE
    /\ lastEvent' = Event("onerror", Undefined)
    /\ UNCHANGED <<server, clientConfig, isVerified, isVerifying, verificationMethod, effectRuns,
                   api, captchaWidgetId, localError, retryTimeout, widgetsRendered, widgetResets, rendersInPeriod>>
    /\ effectDue' = (effectDue \/ DepsChanged)

\* callVerificationApi up to its await: the flags are set, and without a
\* payload the call ends at once, else the request is sent.
callVerificationApi(payload, via) ==
    /\ attempts < MaxAttempts
    /\ attempts' = attempts + 1
    /\ IF ~Truthy(payload.idkit_response) /\ ~Truthy(payload.captcha_token)
       THEN /\ error' = Str(NoPayloadError)
            /\ isVerifying' = FALSE
            /\ UNCHANGED inflight
       ELSE /\ error' = Null
            /\ isVerifying' = TRUE
            /\ inflight' = inflight \cup {[id |-> attempts + 1, payload |-> payload, via |-> via]}
    /\ UNCHANGED <<isVerified, verificationMethod, isCaptchaScriptLoaded>>

\* Mutant: a failure is reported under the method that was attempted.
failureResult_AttemptedMethod(message) ==
    [success |-> FALSE, method |-> "world_id", data |-> Str(message)]

\* failureResult, and the result of the no-payload return
failureResult(message) == [success |-> FALSE, method |-> "none", data |-> Str(message)]

\* The isVerified effect of WidCaptcha: it runs when isVerified or isVerifying
\* has changed, and reports a success under the configured provider's name.
isVerifiedEffect ==
    IF /\ isVerified' /\ ~isVerifying'
       /\ (isVerified' # isVerified \/ isVerifying' # isVerifying)
    THEN <<[success |-> TRUE, method |-> captchaProvider, data |-> Str("Verification successful")]>>
    ELSE <<>>

\* The event of a call of callVerificationApi
Called(op, arg, payload) ==
    [Event(op, arg) EXCEPT
        !.returned = IF ~Truthy(payload.idkit_response) /\ ~Truthy(payload.captcha_token)
                     THEN failureResult(NoPayloadError)
                     ELSE Undefined,
        !.completions = isVerifiedEffect]

\* Mutant: a response counts as accepted by its success flag alone.
apiTry_IgnoresStatus(payload, outcome) ==
    IF outcome.kind = "throw"
    THEN Raise(outcome.message)
    ELSE IF outcome.json = NotJson
    THEN Raise(JsonSyntaxError)
    ELSE IF outcome.json = Null
    THEN Raise(NullReadError("success"))
    ELSE IF Truthy(Get(outcome.json, "success"))
    THEN [raised |-> FALSE,
          method |-> OrElse(Get(outcome.json, "method"),
                            Str(IF Truthy(payload.idkit_response) THEN "world_id" ELSE captchaProvider)).s]
    ELSE Raise(OrElse(OrElse(Get(outcome.json, "error"), Get(outcome.json, "message")),
                      Str("Verification failed with status " \o ToString(outcome.status))).s)

\* The try block of callVerificationApi from the response on: the method it
\* sets, or the Error it throws.
apiTry(payload, outcome) ==
    IF outcome.kind = "throw"
    THEN Raise(outcome.message)
    ELSE IF outcome.json = NotJson
    THEN Raise(JsonSyntaxError)
    ELSE IF outcome.json = Null
    THEN Raise(NullReadError("success"))
    ELSE IF Ok(outcome.status) /\ Truthy(Get(outcome.json, "success"))
    THEN [raised |-> FALSE,
          method |-> OrElse(Get(outcome.json, "method"),
                            Str(IF Truthy(payload.idkit_response) THEN "world_id" ELSE captchaProvider)).s]
    ELSE Raise(OrElse(OrElse(Get(outcome.json, "error"), Get(outcome.json, "message")),
                      Str("Verification failed with status " \o ToString(outcome.status))).s)

\* verificationResult
verificationResult(method, json) ==
    [success |-> TRUE, method |-> method,
     data |-> OrElse(Get(json, "message"), Str("Verification successful")),
     details |-> Get(json, "details")]

\* Mutant: the catch block is missing and the call rejects with the Error.
settle_Rejects(payload, outcome) ==
    LET r == apiTry(payload, outcome)
    IN  IF r.raised THEN r ELSE verificationResult(r.method, outcome.json)

\* What a call of callVerificationApi resolves with once its exchange is over
settle(payload, outcome) ==
    LET r == apiTry(payload, outcome)
    IN  IF r.raised THEN failureResult(r.message) ELSE verificationResult(r.method, outcome.json)

\* callVerificationApi from its response on (try, catch, finally), and the
\* continuation of the component handler that awaited it.
callVerificationApi_Response ==
    \E a \in inflight, outcome \in ApiOutcomes :
        LET r == apiTry(a.payload, outcome)
        IN  /\ inflight' = inflight \ {a}
            /\ IF r.raised
               THEN /\ error' = Str(r.message)
                    /\ verificationMethod' = "none"
                    /\ isVerified' = FALSE
                    /\ localError' = IF a.via = "verifyProof" THEN localError ELSE Str(r.message)
               ELSE /\ verificationMethod' = r.method
                    /\ isVerified' = TRUE
                    /\ UNCHANGED <<error, localError>>
            /\ isVerifying' = FALSE
            /\ lastEvent' =
                  [Event("response", outcome) EXCEPT
                      !.returned = settle(a.payload, outcome),
                      !.completions =
                          (IF a.via # "verifyProof" /\ ~r.raised
                           THEN <<settle(a.payload, outcome)>> ELSE <<>>) \o isVerifiedEffect]
            /\ UNCHANGED <<server, clientConfig, isCaptchaScriptLoaded, document, attempts,
                           captchaWidgetId, effectDue, retryTimeout, widgetsRendered, widgetResets, rendersInPeriod>>

\* verifyProof called through the useWidCaptcha hook
verifyProof ==
    /\ Mounted
    /\ \E payload \in Payloads :
          /\ callVerificationApi(payload, "verifyProof")
          /\ lastEvent' = Called("verifyProof", payload, payload)
    /\ UNCHANGED <<server, clientConfig, document, widget>>

\* Mutant: reset leaves isVerified as it is.
reset_StaysVerified(s) ==
    [s EXCEPT !.isVerifying = FALSE, !.verificationMethod = "none", !.error = Null]

\* Mutant: reset leaves the error in place.
reset_KeepsError(s) ==
    [s EXCEPT !.isVerified = FALSE, !.isVerifying = FALSE, !.verificationMethod = "none"]

\* reset, as a function of the provider's state
reset(s) ==
    [s EXCEPT !.isVerified = FALSE, !.isVerifying = FALSE, !.verificationMethod = "none",
              !.error = Null]

\* reset applied to the provider (resetContextState in WidCaptcha)
resetContextState ==
    LET s == reset(providerState)
    IN  /\ isVerified' = s.isVerified
        /\ isVerifying' = s.isVerifying
        /\ verificationMethod' = s.verificationMethod
        /\ error' = s.error
        /\ isCaptchaScriptLoaded' = s.isCaptchaScriptLoaded

\* reset called through the useWidCaptcha hook
Reset ==
    /\ Mounted
    /\ resetContextState
    /\ lastEvent' = Event("reset", Undefined)
    /\ UNCHANGED <<server, clientConfig, document, api, widget>>

\* IDKit's handleVerify callback: a proof, or nothing
handleWorldIDVerify ==
    /\ Mounted
    /\ \E result \in {Null, Obj(ValidProof)} :
          /\ IF ~Truthy(result)
             THEN /\ localError' = Str("World ID verification failed: Missing proof.")
                  /\ UNCHANGED <<provider, api>>
             ELSE /\ localError' = Null
                  /\ callVerificationApi(Payload(result, Undefined), "handleWorldIDVerify")
          /\ lastEvent' = Event("handleWorldIDVerify", result)
    /\ UNCHANGED <<server, clientConfig, document, captchaWidgetId, effectDue, retryTimeout,
                   widgetsRendered, widgetResets, rendersInPeriod>>

\* The widget's callback: a token, or null
handleCaptchaSuccess ==
    /\ captchaWidgetId # Null
    /\ \E token \in {Null, Str("valid-token")} :
          /\ IF Truthy(token)
             THEN /\ localError' = Null
                  /\ callVerificationApi(Payload(Undefined, token), "handleCaptchaSuccess")
             ELSE /\ localError' = Str(captchaProvider \o " verification failed: No token received.")
                  /\ resetContextState
                  /\ UNCHANGED api
          /\ lastEvent' = Event("handleCaptchaSuccess", token)
    /\ UNCHANGED <<server, clientConfig, document, captchaWidgetId, effectDue, retryTimeout,
                   widgetsRendered, widgetResets, rendersInPeriod>>

\* The widget's expired-callback
handleCaptchaExpired ==
    /\ captchaWidgetId # Null
    /\ localError' = Str(captchaProvider \o " challenge expired. Please try again.")
    /\ resetContextState
    /\ lastEvent' = Event("handleCaptchaExpired", Undefined)
    /\ UNCHANGED <<server, clientConfig, document, api, captchaWidgetId, effectDue, retryTimeout,
                   widgetsRendered, widgetResets, rendersInPeriod>>

\* The widget's error-callback
handleCaptchaError ==
    /\ captchaWidgetId # Null
    /\ localError' = Str(captchaProvider \o " widget error")
    /\ resetContextState
    /\ lastEvent' = Event("handleCaptchaError", Undefined)
    /\ UNCHANGED <<server, clientConfig, document, api, captchaWidgetId, effectDue, retryTimeout,
                   widgetsRendered, widgetResets, rendersInPeriod>>

\* renderCaptcha: the provider's render API is missing (nothing happens), or
\* it returns the handle of the new widget, or it returns no handle, or it
\* throws into handleCaptchaError.
\* retry tells whether the caller schedules the retry timer on failure.
renderCaptcha(retry) ==
    IF ~ApiReady \/ ~Truthy(siteKey)
    THEN /\ retryTimeout' = retry
         /\ UNCHANGED <<provider, captchaWidgetId, localError, widgetsRendered, rendersInPeriod>>
    ELSE /\ widgetsRendered < MaxWidgets
         /\ widgetsRendered' = widgetsRendered + 1
         /\ \/ /\ captchaWidgetId' = Num(widgetsRendered)
               /\ rendersInPeriod' = Append(rendersInPeriod, "handle")
               /\ retryTimeout' = FALSE
               /\ UNCHANGED <<provider, localError>>
            \/ /\ localError' = Str("Failed to render " \o captchaProvider \o " widget.")
               /\ rendersInPeriod' = Append(rendersInPeriod, "no handle")
               /\ retryTimeout' = retry
               /\ UNCHANGED <<provider, captchaWidgetId>>
            \/ /\ localError' = Str(captchaProvider \o " widget error")
               /\ rendersInPeriod' = Append(rendersInPeriod, "threw")
               /\ resetContextState
               /\ retryTimeout' = retry
               /\ UNCHANGED captchaWidgetId

\* Mutant: the effect renders without testing that the handle is unset.
renderEffect_NoHandleGuard ==
    /\ effectDue
    /\ IF ~isCaptchaScriptLoaded
       THEN /\ retryTimeout' = FALSE
            /\ UNCHANGED <<provider, captchaWidgetId, localError, widgetsRendered, rendersInPeriod>>
       ELSE renderCaptcha(TRUE)
    /\ effectDue' = DepsChanged
    /\ lastEvent' = Event("renderEffect", Undefined)
    /\ UNCHANGED <<server, clientConfig, document, api, widgetResets>>

\* The render effect of WidCaptcha, with the cleanup of its previous run
renderEffect ==
    /\ effectDue
    /\ IF ~isCaptchaScriptLoaded \/ captchaWidgetId # Null
       THEN /\ retryTimeout' = FALSE
            /\ UNCHANGED <<provider, captchaWidgetId, localError, widgetsRendered, rendersInPeriod>>
       ELSE renderCaptcha(TRUE)
    /\ effectDue' = DepsChanged
    /\ lastEvent' = Event("renderEffect", Undefined)
    /\ UNCHANGED <<server, clientConfig, document, api, widgetResets>>

\* The retry timer of the render effect fires.
retryTimeoutFires ==
    /\ retryTimeout
    /\ renderCaptcha(FALSE)
    /\ effectDue' = (effectDue \/ DepsChanged)
    /\ lastEvent' = Event("retryTimeout", Undefined)
    /\ UNCHANGED <<server, clientConfig, document, api, widgetResets>>

\* The reset button
handleResetClick ==
    /\ Mounted
    /\ resetContextState
    /\ localError' = Null
    /\ widgetResets' = IF captchaWidgetId # Null /\ ApiReady
                       THEN widgetResets \cup {captchaWidgetId}
                       ELSE widgetResets
    /\ captchaWidgetId' = Null
    /\ rendersInPeriod' = IF captchaWidgetId # Null THEN <<>> ELSE rendersInPeriod
    /\ effectDue' = (effectDue \/ DepsChanged)
    /\ lastEvent' = Event("handleResetClick", Undefined)
    /\ UNCHANGED <<server, clientConfig, document, api, retryTimeout, widgetsRendered>>

\* The server of the page is not part of its model: its variables stay as
\* they are at start.
ClientInit ==
    /\ WLD_APP_ID = Str("app_staging_1")
    /\ WLD_ACTION_ID = Str("login")
    /\ CAPTCHA_PROVIDER = "hcaptcha"
    /\ RECAPTCHA_SECRET_KEY = Undefined
    /\ HCAPTCHA_SECRET_KEY = Str("sk")
    /\ PRIMARY_VERIFIER = "worldid"
    /\ pc = "idle"
    /\ request = Undefined
    /\ runs = <<>>
    /\ response = NoResponse
    /\ served = 0
    /\ \E e \in ClientProviderEnv : captchaProvider = OrElse(e, Str("recaptcha")).s
    /\ siteKey \in SiteKeys
    /\ scriptTag \in {"none", "loaded"}
    /\ Unmounted

ClientNext ==
    \/ loadScript \/ onload \/ onerror
    \/ verifyProof \/ callVerificationApi_Response \/ Reset
    \/ handleWorldIDVerify \/ handleCaptchaSuccess \/ handleCaptchaExpired \/ handleCaptchaError
    \/ renderEffect \/ retryTimeoutFires \/ handleResetClick

ClientSpec == ClientInit /\ [][ClientNext]_vars

-----------------------------------------------------------------------------
(* Properties of the page *)

\* The handler that ran last called the provider's reset.
CallsReset(e) ==
    \/ e.op \in {"reset", "handleResetClick", "handleCaptchaExpired", "handleCaptchaError"}
    \/ e.op = "handleCaptchaSuccess" /\ e.arg = Null

\* The handler that ran last processed a response with an ok status and
\* success: true.
AcceptedResponse(e) ==
    /\ e.op = "response"
    /\ e.arg.kind = "response"
    /\ Ok(e.arg.status)
    /\ Get(e.arg.json, "success") = Bool(TRUE)

\* C15: at most one verification attempt is in flight per provider: a call of
\* verifyProof while isVerifying is true starts no second HTTP request.
C15_OneAttemptInFlight == Cardinality(inflight) <= 1

C17_VerifiedOnlyByAcceptedResponse ==
    [][(~isVerified /\ isVerified') => AcceptedResponse(lastEvent')]_vars

C17_Witness ==
    /\ isVerified
    /\ AcceptedResponse(lastEvent)
    /\ lastEvent.arg.status = 200
    /\ attempts = 2

\* C18: reset, from any state, sets isVerified to false, isVerifying to
\* false, verificationMethod to 'none' and error to null and leaves
\* isCaptchaScriptLoaded as it is; resetting twice gives the state of
\* resetting once.
C18_Reset ==
    /\ [](reset(reset(providerState)) = reset(providerState))
    /\ [][CallsReset(lastEvent') =>
            /\ ~isVerified'
            /\ ~isVerifying'
            /\ verificationMethod' = "none"
            /\ error' = Null
            /\ isCaptchaScriptLoaded' = isCaptchaScriptLoaded]_vars

C18_Witness ==
    /\ lastEvent.op = "reset"
    /\ inflight # {}
    /\ ~isVerifying /\ ~isVerified /\ error = Null /\ verificationMethod = "none"
    /\ isCaptchaScriptLoaded

\* C19: whenever reset runs while a CAPTCHA widget handle is set (from the
\* reset button, the token-expired callback, the widget-error callback or the
\* null-token callback), the widget's reset API is invoked for that handle
\* and the handle is released.
C19_ResetReleasesWidget ==
    [][(CallsReset(lastEvent') /\ lastEvent'.op # "reset" /\ captchaWidgetId # Null) =>
            /\ captchaWidgetId \in widgetResets'
            /\ captchaWidgetId' = Null]_vars

\* C20: isCaptchaScriptLoaded is monotonic: once true it never becomes
\* false, in any order of script load, script error and effect runs.
C20_ScriptLoadedMonotonic ==
    [][isCaptchaScriptLoaded => isCaptchaScriptLoaded']_vars

-----------------------------------------------------------------------------
(* Further properties of the endpoint *)

\* The payload of the request body that belongs to an adapter
PayloadFor(adapter) == IF adapter = "verifyWorldID" THEN idkitResponse ELSE captchaToken

\* The method tag of an adapter
MethodOf(adapter) ==
    CASE adapter = "verifyWorldID" -> "world_id"
      [] adapter = "verifyRecaptcha" -> "recaptcha"
      [] adapter = "verifyHCaptcha" -> "hcaptcha"

\* C23: the endpoint answers success:true only if, within that request, an
\* adapter was invoked on a payload present in the request body and that
\* adapter reported success.
C23_SuccessOnlyByAdapter ==
    (Done /\ response.body.success) =>
        /\ response.status = 200
        /\ Len(runs) >= 1
        /\ LastRun.result.success
        /\ Truthy(LastRun.payload)
        /\ LastRun.payload = PayloadFor(LastRun.adapter)
        /\ \A i \in 1..(Len(runs) - 1) : ~runs[i].result.success

C23_Witness ==
    /\ Done
    /\ response.body.success
    /\ Len(runs) = 2
    /\ ~runs[1].result.success
    /\ runs[2].adapter = "verifyHCaptcha" /\ runs[2].result.success
    /\ runs[2].payload = Str("valid-token")

\* C24: for every value of CAPTCHA_PROVIDER and PRIMARY_VERIFIER, the method
\* of a success response names the adapter that accepted the payload and is
\* one of world_id, recaptcha, hcaptcha.
C24_MethodNamesAdapter ==
    (Done /\ response.body.success) =>
        /\ response.body.method \in {Str("world_id"), Str("recaptcha"), Str("hcaptcha")}
        /\ response.body.method = Str(MethodOf(LastRun.adapter))

-----------------------------------------------------------------------------
(* Further properties of the page *)

\* C21: after the CAPTCHA script failed to load, the provider starts no
\* further load of the script on its own and the load error stays set.
C21_ScriptFailureTerminal ==
    [][error = Str(ScriptLoadError) =>
            /\ error' = Str(ScriptLoadError)
            /\ scriptTag' # "loading"]_vars

\* C25: isVerifying is true in every state in which some verifyProof call
\* has its HTTP request outstanding.
C25_VerifyingWhileOutstanding == (inflight # {}) => isVerifying

\* C26: after reset, the response of an attempt that was started before the
\* reset does not change isVerified, verificationMethod or error: in
\* particular the response processed right after a reset changes none of
\* them.
C26_StaleResponseIgnored ==
    [][(CallsReset(lastEvent) /\ lastEvent'.op = "response") =>
            UNCHANGED <<isVerified, verificationMethod, error>>]_vars

\* C27: isCaptchaScriptLoaded is true only when the provider's script has
\* finished loading, never while it is still loading or after it failed.
C27_LoadedOnlyWhenLoaded == isCaptchaScriptLoaded => (scriptTag = "loaded")

\* The handler that ran last processed the end of an exchange that was not
\* accepted: the fetch rejected, or the response was not ok, or its body
\* did not say success.
FailedResponse(e) == e.op = "response" /\ ~AcceptedResponse(e)

\* The handler that ran last was a call of verifyProof with neither payload.
NoPayloadCall(e) == e.op = "verifyProof" /\ e.arg = Payload(Undefined, Undefined)

\* C29: the step that processes the failure of an attempt leaves isVerified
\* false, verificationMethod 'none', error set to that failure and
\* isVerifying false, whatever the state was before, and the call resolves
\* with that failure; a call with neither payload sends no request and
\* returns a failure result with method 'none'.
C29_FailureStep ==
    [][/\ FailedResponse(lastEvent') =>
            /\ ~isVerified'
            /\ verificationMethod' = "none"
            /\ ~isVerifying'
            /\ error' # Null
            /\ lastEvent'.returned = [success |-> FALSE, method |-> "none", data |-> error']
            /\ lastEvent'.arg.kind = "throw" => error' = Str(lastEvent'.arg.message)
            /\ (lastEvent'.arg.kind = "response" /\ Truthy(Get(lastEvent'.arg.json, "error"))) =>
                    error' = Get(lastEvent'.arg.json, "error")
       /\ NoPayloadCall(lastEvent') =>
            /\ inflight' = inflight
            /\ ~lastEvent'.returned.success
            /\ lastEvent'.returned.method = "none"
            /\ lastEvent'.returned.data = Str(NoPayloadError)]_vars

C29_Witness ==
    /\ FailedResponse(lastEvent)
    /\ lastEvent.arg.kind = "response" /\ lastEvent.arg.status = 400
    /\ attempts = 2 /\ inflight = {}
    /\ ~isVerified /\ verificationMethod = "none" /\ ~isVerifying
    /\ error = Str("Verification Failed: reCAPTCHA Verification Failed: unknown")

C28_CompleteExactlyOnce ==
    [][AcceptedResponse(lastEvent') =>
            /\ Len(lastEvent'.completions) = 1
            /\ lastEvent'.completions[1].success
            /\ lastEvent'.completions[1].method = lastEvent'.returned.method]_vars

\* C22: the widget's render API is called at most once for each period in
\* which the handle is unset, and never while a handle is set.
C22_RenderOncePerPeriod ==
    /\ [](Len(rendersInPeriod) <= 1)
    /\ [][captchaWidgetId # Null => widgetsRendered' = widgetsRendered]_vars

\* C22 amended: within a period in which the handle is unset the render API
\* returns a handle at most once, and that call ends the period; it is never
\* called while a handle is set; a call that throws or returns no handle is
\* followed by another call in the same period when the retry timer fires or
\* the effect runs again.
C22_OneHandlePerPeriod ==
    /\ [](/\ \A i \in 1..Len(rendersInPeriod) :
                rendersInPeriod[i] = "handle" => i = Len(rendersInPeriod)
          /\ (captchaWidgetId # Null) <=>
                (rendersInPeriod # <<>> /\ rendersInPeriod[Len(rendersInPeriod)] = "handle"))
    /\ [][captchaWidgetId # Null => widgetsRendered' = widgetsRendered]_vars

C22_Witness ==
    /\ rendersInPeriod = <<"threw", "handle">>
    /\ lastEvent.op = "retryTimeout"
    /\ captchaWidgetId = Num(1)

====
